---- MODULE Spec2Model ----
(***************************************************************************)
(* Model of the load engine (src/src/loaders.py, DeltaLakeLoader), of the  *)
(* transformers (src/src/transformers.py) and of the pipeline runs         *)
(* (src/src/pipelines.py) of data-eng-utn.                                 *)
(*                                                                         *)
(* A Delta table is a record: whether it exists, its column set, its       *)
(* partition columns and its rows (a bag: row order is immaterial, copies  *)
(* count).  A pandas DataFrame is a record: its columns and its rows (a    *)
(* sequence: the strategies read row 0).  A row is a record keyed by       *)
(* column name.                                                            *)
(***************************************************************************)
EXTENDS Integers, Sequences, FiniteSets, Bags, TLC

VARIABLES store, last, pc, run

vars == <<store, last, pc, run>>

(***************************************************************************)
(* Bounds of the model.                                                    *)
(***************************************************************************)
MaxRows == 3
MaxBatch == 2

(***************************************************************************)
(* Values.                                                                 *)
(***************************************************************************)
Cities == {"cordoba", "rosario"}
Dates == {"2024-01-01", "2024-01-02"}
\* Values held by existing rows and values carried by incoming batches.
OldVals == {10}
NewVals == {99}
Vals == OldVals \cup NewVals

RawColumns == {"city", "date_retrieved", "v"}
DriftColumns == {"city", "date_retrieved", "pm10"}

RawRows == [city : Cities, date_retrieved : Dates, v : Vals]
OldRows == [city : Cities, date_retrieved : Dates, v : OldVals]
NewRows == [city : Cities, date_retrieved : Dates, v : NewVals]
DriftRows == [city : {"cordoba"}, date_retrieved : {"2024-01-01"}, pm10 : {1}]

(***************************************************************************)
(* Bags and sequences.                                                     *)
(***************************************************************************)
Range(s) == {s[i] : i \in DOMAIN s}

SeqToBag(s) == [r \in Range(s) |-> Cardinality({i \in DOMAIN s : s[i] = r})]

\* The copies in B of the rows in S.
Restrict(B, S) == [r \in S \cap DOMAIN B |-> B[r]]

SeqsUpTo(S, n) == UNION {[1..k -> S] : k \in 0..n}

RECURSIVE BagsOfSize(_, _)
BagsOfSize(S, n) ==
    IF n = 0 THEN {EmptyBag}
    ELSE {B (+) SetToBag({r}) : B \in BagsOfSize(S, n - 1), r \in S}

BagsUpTo(S, n) == UNION {BagsOfSize(S, k) : k \in 0..n}

(***************************************************************************)
(* Tables and data frames.                                                 *)
(***************************************************************************)
NoTable == [exists |-> FALSE, columns |-> {}, partition_by |-> {}, rows |-> EmptyBag]

Table(cols, parts, rows) ==
    [exists |-> TRUE, columns |-> cols, partition_by |-> parts, rows |-> rows]

DataFrame(cols, rows) == [columns |-> cols, rows |-> rows]

\* A predicate "<col> = '<val>'"; NoPredicate stands for predicate=None.
NoPredicate == [col |-> "", val |-> ""]

\* f"{filter_col} = '{value}'": the value is formatted into a quoted literal.
\* The filter columns of this model hold strings without quotes, whose literal
\* reads back as the same string.
FormatPredicate(filter_col, value) == [col |-> filter_col, val |-> value]

Matches(row, predicate) ==
    /\ predicate.col \in DOMAIN row
    /\ row[predicate.col] = predicate.val


(***************************************************************************)
(* The table store (deltalake), as the loader calls it.  Each call returns *)
(* whether it succeeded and the table it leaves; a failed call leaves the  *)
(* table as it was (the store commits atomically).                         *)
(***************************************************************************)
StoreOk(t) == [ok |-> TRUE, table |-> t]
StoreFail(t) == [ok |-> FALSE, table |-> t]

\* write_deltalake(path, data, mode=..., partition_by=..., predicate=...).
\* mode "error" is the default of the call; partition_by {} stands for None.
write_deltalake(t, data, mode, partition_by, predicate) ==
    LET rows == SeqToBag(data.rows) IN
    IF ~(partition_by \subseteq data.columns) THEN StoreFail(t)
    ELSE IF mode = "overwrite" /\ predicate # NoPredicate
            /\ \E i \in DOMAIN data.rows : ~Matches(data.rows[i], predicate)
        THEN StoreFail(t)
    ELSE IF ~t.exists THEN StoreOk(Table(data.columns, partition_by, rows))
    ELSE IF mode = "error" THEN StoreFail(t)
    ELSE IF data.columns # t.columns THEN StoreFail(t)
    ELSE IF partition_by # {} /\ partition_by # t.partition_by THEN StoreFail(t)
    ELSE IF mode = "append" THEN StoreOk([t EXCEPT !.rows = @ (+) rows])
    ELSE IF predicate = NoPredicate THEN StoreOk([t EXCEPT !.rows = rows])
    ELSE StoreOk([t EXCEPT !.rows =
                    Restrict(@, {r \in DOMAIN t.rows : ~Matches(r, predicate)})
                      (+) rows])

\* The key of a row under a merge predicate "tgt.a = src.a AND tgt.b = src.b",
\* given as the set of its columns.
Key(row, on) == [c \in on |-> row[c]]

\* Mutant of merge: the chain without .when_not_matched_insert_all().
merge_update_only(t, source, on) ==
    IF ~t.exists \/ source.columns # t.columns \/ ~(on \subseteq t.columns)
    THEN StoreFail(t)
    ELSE
      LET src == source.rows
          Matched(tr) == \E i \in DOMAIN src : Key(src[i], on) = Key(tr, on)
          kept == Restrict(t.rows, {tr \in DOMAIN t.rows : ~Matched(tr)})
          Pairs(sr) ==
              BagCardinality(Restrict(t.rows,
                  {tr \in DOMAIN t.rows : Key(tr, on) = Key(sr, on)}))
          hit == {sr \in Range(src) : Pairs(sr) > 0}
          written == [sr \in hit |->
                        Cardinality({i \in DOMAIN src : src[i] = sr}) * Pairs(sr)]
      IN StoreOk([t EXCEPT !.rows = kept (+) written])

\* dt.merge(source, predicate).when_matched_update_all()
\*   .when_not_matched_insert_all().execute(): the outer join of source and
\* target on the predicate; every matched pair yields the source row, every
\* unmatched source row is inserted, every unmatched target row is kept.
merge(t, source, on) ==
    IF ~t.exists \/ source.columns # t.columns \/ ~(on \subseteq t.columns)
    THEN StoreFail(t)
    ELSE
      LET src == source.rows
          Matched(tr) == \E i \in DOMAIN src : Key(src[i], on) = Key(tr, on)
          kept == Restrict(t.rows, {tr \in DOMAIN t.rows : ~Matched(tr)})
          Pairs(sr) ==
              BagCardinality(Restrict(t.rows,
                  {tr \in DOMAIN t.rows : Key(tr, on) = Key(sr, on)}))
          Copies(sr) == IF Pairs(sr) = 0 THEN 1 ELSE Pairs(sr)
          written == [sr \in Range(src) |->
                        Cardinality({i \in DOMAIN src : src[i] = sr}) * Copies(sr)]
      IN StoreOk([t EXCEPT !.rows = kept (+) written])

\* dt.delete("<col> = '<val>'")
delete(t, predicate) ==
    StoreOk([t EXCEPT !.rows =
               Restrict(@, {r \in DOMAIN t.rows : ~Matches(r, predicate)})])

(***************************************************************************)
(* DeltaLakeLoader.  Each strategy returns the table it leaves, how the    *)
(* call ended ("ok" or the exception raised) and the store calls it issued.*)
(***************************************************************************)
StoreCall(call, mode, partition_by, predicate, ok) ==
    [call |-> call, mode |-> mode, partition_by |-> partition_by,
     predicate |-> predicate, ok |-> ok]

Result(t, outcome, log) == [table |-> t, outcome |-> outcome, log |-> log]

\* A required argument the caller did not pass.
Missing == "<missing>"

\* Mutant of merge_upsert: the except branch only prints, it writes nothing.
merge_upsert_no_create(t, data, on, partition_by) ==
    LET m == merge(t, data, on)
        tried == IF t.exists
                 THEN <<StoreCall("merge", "", {}, NoPredicate, m.ok)>>
                 ELSE <<>>
    IN Result(m.table, "ok", tried)

\* Mutant of merge_upsert: the fallback write passes mode="overwrite".
merge_upsert_overwrite(t, data, on, partition_by) ==
    LET m == merge(t, data, on)
        tried == IF t.exists
                 THEN <<StoreCall("merge", "", {}, NoPredicate, m.ok)>>
                 ELSE <<>>
    IN IF m.ok THEN Result(m.table, "ok", tried)
       ELSE
         LET w == write_deltalake(t, data, "overwrite", partition_by, NoPredicate)
             calls == Append(tried,
                        StoreCall("write", "overwrite", partition_by, NoPredicate, w.ok))
         IN Result(w.table, IF w.ok THEN "ok" ELSE "StoreError", calls)

merge_upsert(t, data, on, partition_by) ==
    LET m == merge(t, data, on)
        tried == IF t.exists
                 THEN <<StoreCall("merge", "", {}, NoPredicate, m.ok)>>
                 ELSE <<>>
    IN IF m.ok THEN Result(m.table, "ok", tried)
       ELSE \* except Exception: create the table with the default write mode
         LET w == write_deltalake(t, data, "error", partition_by, NoPredicate)
             calls == Append(tried,
                        StoreCall("write", "error", partition_by, NoPredicate, w.ok))
         IN Result(w.table, IF w.ok THEN "ok" ELSE "StoreError", calls)

\* Mutant of delete_insert: the existing partition is never deleted.
delete_insert_append_only(t, data, filter_col, partition_by) ==
    IF filter_col \notin data.columns THEN Result(t, "KeyError", <<>>)
    ELSE IF data.rows = <<>> THEN Result(t, "IndexError", <<>>)
    ELSE IF t.exists /\ filter_col \notin t.columns THEN Result(t, "KeyError", <<>>)
    ELSE
      LET w == write_deltalake(t, data, "append", partition_by, NoPredicate)
      IN Result(w.table, IF w.ok THEN "ok" ELSE "StoreError",
                <<StoreCall("write", "append", partition_by, NoPredicate, w.ok)>>)

delete_insert(t, data, filter_col, partition_by) ==
    IF filter_col \notin data.columns THEN Result(t, "KeyError", <<>>)
    ELSE IF data.rows = <<>> THEN Result(t, "IndexError", <<>>)
    ELSE IF t.exists /\ filter_col \notin t.columns THEN Result(t, "KeyError", <<>>)
    ELSE
      LET filter_value == data.rows[1][filter_col]
          predicate == FormatPredicate(filter_col, filter_value)
          exists_partition ==
              /\ t.exists
              /\ \E r \in DOMAIN t.rows : r[filter_col] = filter_value
          d == IF exists_partition THEN delete(t, predicate) ELSE StoreOk(t)
          deleted == IF exists_partition
                     THEN <<StoreCall("delete", "", {}, predicate, d.ok)>>
                     ELSE <<>>
          w == write_deltalake(d.table, data, "append", partition_by, NoPredicate)
          calls == Append(deleted,
                     StoreCall("write", "append", partition_by, NoPredicate, w.ok))
      IN Result(w.table, IF w.ok THEN "ok" ELSE "StoreError", calls)

\* Mutant of insert_overwrite: the partition is deleted, then the batch
\* appended, as two store operations.
insert_overwrite_delete_append(t, data, partition_by, filter_col) ==
    IF filter_col = Missing THEN Result(t, "TypeError", <<>>)
    ELSE IF partition_by = data.columns THEN Result(t, "ValueError", <<>>)
    ELSE IF filter_col \notin partition_by THEN Result(t, "ValueError", <<>>)
    ELSE IF filter_col \notin data.columns THEN Result(t, "KeyError", <<>>)
    ELSE IF data.rows = <<>> THEN Result(t, "IndexError", <<>>)
    ELSE
      LET predicate == FormatPredicate(filter_col, data.rows[1][filter_col])
          d == IF t.exists /\ filter_col \in t.columns
               THEN delete(t, predicate) ELSE StoreOk(t)
          w == write_deltalake(d.table, data, "append", partition_by, NoPredicate)
      IN Result(w.table, IF w.ok THEN "ok" ELSE "StoreError",
                <<StoreCall("delete", "", {}, predicate, d.ok),
                  StoreCall("write", "append", partition_by, NoPredicate, w.ok)>>)

\* Mutant of insert_overwrite: the write passes mode="append".
insert_overwrite_append(t, data, partition_by, filter_col) ==
    IF filter_col = Missing THEN Result(t, "TypeError", <<>>)
    ELSE IF partition_by = data.columns THEN Result(t, "ValueError", <<>>)
    ELSE IF filter_col \notin partition_by THEN Result(t, "ValueError", <<>>)
    ELSE IF filter_col \notin data.columns THEN Result(t, "KeyError", <<>>)
    ELSE IF data.rows = <<>> THEN Result(t, "IndexError", <<>>)
    ELSE
      LET w == write_deltalake(t, data, "append", partition_by, NoPredicate)
      IN Result(w.table, IF w.ok THEN "ok" ELSE "StoreError",
                <<StoreCall("write", "append", partition_by, NoPredicate, w.ok)>>)

insert_overwrite(t, data, partition_by, filter_col) ==
    IF filter_col = Missing THEN Result(t, "TypeError", <<>>)
    ELSE IF partition_by = data.columns THEN Result(t, "ValueError", <<>>)
    ELSE IF filter_col \notin partition_by THEN Result(t, "ValueError", <<>>)
    ELSE IF filter_col \notin data.columns THEN Result(t, "KeyError", <<>>)
    ELSE IF data.rows = <<>> THEN Result(t, "IndexError", <<>>)
    ELSE
      LET partition_value == data.rows[1][filter_col]
          predicate == FormatPredicate(filter_col, partition_value)
          w == write_deltalake(t, data, "overwrite", partition_by, predicate)
      IN Result(w.table, IF w.ok THEN "ok" ELSE "StoreError",
                <<StoreCall("write", "overwrite", partition_by, predicate, w.ok)>>)

(***************************************************************************)
(* Specification Spec: one loader on one table.  The table starts in any   *)
(* state a store can hold (absent, or any bag of rows within the bound),   *)
(* and each call is one strategy with any batch and arguments.  last holds *)
(* the call in progress until the caller takes its result (Return).        *)
(***************************************************************************)
\* path = f"{self.table_root_path}/{location}"
Path(table_root_path, location) == <<table_root_path, location>>

LoaderLocation == Path("bronze", "forecast")

NoCall ==
    [op |-> "none", location |-> <<>>, data |-> DataFrame({}, <<>>),
     partition_by |-> {}, filter_col |-> "", on |-> {}, before |-> NoTable,
     outcome |-> "none", log |-> <<>>]

Call(op, location, data, partition_by, filter_col, on, before, r) ==
    [op |-> op, location |-> location, data |-> data,
     partition_by |-> partition_by, filter_col |-> filter_col, on |-> on,
     before |-> before, outcome |-> r.outcome, log |-> r.log]

Batches ==
    {DataFrame(RawColumns, s) : s \in SeqsUpTo(NewRows, MaxBatch)}
    \cup {DataFrame(DriftColumns, s) : s \in SeqsUpTo(DriftRows, 1)}

InitTables ==
    {NoTable}
    \cup {Table(RawColumns, {"date_retrieved", "city"}, rows) :
             rows \in BagsUpTo(OldRows, MaxRows)}
    \cup {Table(DriftColumns, {"city"}, rows) : rows \in BagsUpTo(DriftRows, 1)}

MergeKeys == {{"date_retrieved", "city"}, {"city"}, {"date", "city"}}
MergePartitions == {{"city"}, {"bogus"}}
DeleteFilterCols == {"date_retrieved", "bogus"}
DeletePartitions == {{"date_retrieved", "city"}}
OverwritePartitions ==
    {{"date_retrieved", "city"}, RawColumns, {"date_retrieved", "bogus"}}
OverwriteFilterCols == {"date_retrieved", "city", "bogus"}

tbl == store[LoaderLocation]

Fits(r) == BagCardinality(r.table.rows) <= MaxRows

Init ==
    /\ store \in [{LoaderLocation} -> InitTables]
    /\ last = NoCall
    /\ pc = "idle"
    /\ run = 0

MergeUpsert ==
    \E data \in Batches, on \in MergeKeys, partition_by \in MergePartitions :
      LET r == merge_upsert(tbl, data, on, partition_by) IN
      /\ pc = "idle"
      /\ Fits(r)
      /\ store' = [store EXCEPT ![LoaderLocation] = r.table]
      /\ last' = Call("merge_upsert", LoaderLocation, data, partition_by, "", on, tbl, r)
      /\ pc' = "returned"
      /\ UNCHANGED run

DeleteInsert ==
    \E data \in Batches, filter_col \in DeleteFilterCols,
       partition_by \in DeletePartitions :
      LET r == delete_insert(tbl, data, filter_col, partition_by) IN
      /\ pc = "idle"
      /\ Fits(r)
      /\ store' = [store EXCEPT ![LoaderLocation] = r.table]
      /\ last' = Call("delete_insert", LoaderLocation, data, partition_by,
                      filter_col, {}, tbl, r)
      /\ pc' = "returned"
      /\ UNCHANGED run

InsertOverwrite ==
    \E data \in Batches, partition_by \in OverwritePartitions,
       filter_col \in OverwriteFilterCols :
      LET r == insert_overwrite(tbl, data, partition_by, filter_col) IN
      /\ pc = "idle"
      /\ Fits(r)
      /\ store' = [store EXCEPT ![LoaderLocation] = r.table]
      /\ last' = Call("insert_overwrite", LoaderLocation, data, partition_by,
                      filter_col, {}, tbl, r)
      /\ pc' = "returned"
      /\ UNCHANGED run

Return ==
    /\ pc = "returned"
    /\ pc' = "idle"
    /\ last' = NoCall
    /\ UNCHANGED <<store, run>>

Next == MergeUpsert \/ DeleteInsert \/ InsertOverwrite \/ Return

Spec == Init /\ [][Next]_vars

(***************************************************************************)
(* The transformers.  A frame read from a table is the bag of its rows;    *)
(* transform() is modelled by the set of results the call can have, each   *)
(* a DataFrame or the exception raised.  Means are exact fractions; the    *)
(* rounding of floating point is not modelled, and no reading is null.     *)
(***************************************************************************)
Abs(n) == IF n < 0 THEN -n ELSE n

RECURSIVE GCD(_, _)
GCD(a, b) == IF b = 0 THEN a ELSE GCD(b, a % b)

\* The fraction num/den (den > 0) in lowest terms.
Ratio(num, den) ==
    LET g == GCD(Abs(num), den)
    IN [num |-> num \div g, den |-> den \div g]

Whole(n) == Ratio(n, 1)

RSub(a, b) == Ratio(a.num * b.den - b.num * a.den, a.den * b.den)

RMul(a, b) == Ratio(a.num * b.num, a.den * b.den)

RLess(a, b) == a.num * b.den < b.num * a.den

RMin(a, b) == IF RLess(b, a) THEN b ELSE a

RECURSIVE SumOver(_, _, _)
SumOver(S, B, col) ==
    IF S = {} THEN 0
    ELSE LET r == CHOOSE x \in S : TRUE
         IN B[r] * r[col] + SumOver(S \ {r}, B, col)

\* The aggregations of groupby(...).agg(...) over one group, a bag of rows.
Sum(B, col) == SumOver(DOMAIN B, B, col)

Min(B, col) ==
    CHOOSE m \in {r[col] : r \in DOMAIN B} : \A r \in DOMAIN B : m <= r[col]

Max(B, col) ==
    CHOOSE m \in {r[col] : r \in DOMAIN B} : \A r \in DOMAIN B : m >= r[col]

Mean(B, col) == Ratio(Sum(B, col), BagCardinality(B))

\* 'first' takes the value of the group's first row in the order the store
\* returned the rows, which the store does not fix: any row's value.
First(B, col) == {r[col] : r \in DOMAIN B}

RECURSIVE SeqOf(_)
SeqOf(S) ==
    IF S = {} THEN <<>>
    ELSE LET x == CHOOSE y \in S : TRUE IN <<x>> \o SeqOf(S \ {x})

RECURSIVE SeqOfBag(_)
SeqOfBag(B) ==
    IF DOMAIN B = {} THEN <<>>
    ELSE LET x == CHOOSE y \in DOMAIN B : TRUE
         IN [i \in 1..B[x] |-> x] \o SeqOfBag(Restrict(B, DOMAIN B \ {x}))

Transformed(data) == [data |-> data, error |-> ""]

TransformRaised(error) == [data |-> DataFrame({}, <<>>), error |-> error]

\* pd.to_datetime(df['time']).dt.date and .dt.hour; a time is <<day, hour>>.
DateOf(time) == time[1]

HourOf(time) == time[2]

\* gh.encode(latitude, longitude, precision=7): the cell holding the point.
\* A cell of precision 7 is far smaller than a degree, and the model's
\* coordinates are whole degrees: distinct points lie in distinct cells.
Geohash(latitude, longitude) == <<"gh7", latitude, longitude>>

\* df[df['city'] == self.city]
CityRows(t, city) == Restrict(t.rows, {r \in DOMAIN t.rows : r.city = city})

WeatherRawColumns ==
    {"time", "temperature_2m", "precipitation", "windspeed_10m",
     "station_coordinates", "date_retrieved", "city"}

AirQualityRawColumns ==
    {"time", "pm10", "pm2_5", "carbon_monoxide", "station_coordinates",
     "date_retrieved", "city"}

WeatherDailyColumns ==
    {"date", "city", "geohash", "temp_min", "temp_max", "temp_avg",
     "total_precipitation", "avg_windspeed", "latitude", "longitude",
     "date_retrieved", "temp_range"}

AirQualityDailyColumns ==
    {"date", "city", "geohash", "pm10_min", "pm10_max", "pm10_avg",
     "pm2_5_min", "pm2_5_max", "pm2_5_avg", "co_min", "co_max", "co_avg",
     "latitude", "longitude", "date_retrieved", "aqi_simplified"}

HourlyColumns ==
    {"hour", "city", "temp_min", "temp_max", "temp_avg", "precipitation_avg",
     "windspeed_avg", "days_count"}

CombinedColumns ==
    {"date", "city", "geohash", "temp_min", "temp_max", "temp_avg",
     "temp_range", "total_precipitation", "avg_windspeed", "pm10_avg",
     "pm2_5_avg", "co_avg", "aqi_simplified", "health_alert", "allergy_risk",
     "outdoor_score", "latitude", "longitude", "date_retrieved"}

\* The key of groupby(['date', 'city', 'geohash']).
DailyKey(r) ==
    [date |-> DateOf(r.time), city |-> r.city,
     geohash |-> Geohash(r.station_coordinates[1], r.station_coordinates[2])]

\* The groups of a frame and, for each way the store can order the rows,
\* the 'first' date_retrieved of every group.
DailyGroup(df, k) == Restrict(df, {r \in DOMAIN df : DailyKey(r) = k})

DailyFirsts(df) ==
    {f \in [{DailyKey(r) : r \in DOMAIN df} -> {r.date_retrieved : r \in DOMAIN df}] :
       \A k \in DOMAIN f : f[k] \in First(DailyGroup(df, k), "date_retrieved")}

\* WeatherSummaryTransformer.transform and WeatherForecastTransformer.transform
\* run the same code on bronze/historical and bronze/forecast.
weather_daily_transform(source, city) ==
    IF ~source.exists THEN {TransformRaised("TableNotFoundError")}
    ELSE IF "city" \notin source.columns THEN {TransformRaised("KeyError")}
    ELSE LET df == CityRows(source, city)
             row(k, f) ==
                 LET g == DailyGroup(df, k)
                 IN [date |-> k.date, city |-> k.city, geohash |-> k.geohash,
                     temp_min |-> Min(g, "temperature_2m"),
                     temp_max |-> Max(g, "temperature_2m"),
                     temp_avg |-> Mean(g, "temperature_2m"),
                     total_precipitation |-> Sum(g, "precipitation"),
                     avg_windspeed |-> Mean(g, "windspeed_10m"),
                     latitude |-> k.geohash[2], longitude |-> k.geohash[3],
                     date_retrieved |-> f[k],
                     temp_range |-> Max(g, "temperature_2m") - Min(g, "temperature_2m")]
         IN IF DOMAIN df = {}
              THEN {Transformed(DataFrame(WeatherDailyColumns, <<>>))}
            ELSE IF ~(WeatherRawColumns \subseteq source.columns)
              THEN {TransformRaised("KeyError")}
            ELSE {Transformed(DataFrame(WeatherDailyColumns,
                                        SeqOf({row(k, f) : k \in DOMAIN f}))) :
                    f \in DailyFirsts(df)}

\* Mutant of aqi_simplified: the index is not capped.
aqi_simplified_uncapped(pm2_5_avg) == RMul(pm2_5_avg, Ratio(100, 25))

\* min(100, (x / 25.0) * 100)
aqi_simplified(pm2_5_avg) == RMin(Whole(100), RMul(pm2_5_avg, Ratio(100, 25)))

\* AirQualityDailyTransformer.transform
air_quality_daily_transform(source, city) ==
    IF ~source.exists THEN {TransformRaised("TableNotFoundError")}
    ELSE IF "city" \notin source.columns THEN {TransformRaised("KeyError")}
    ELSE LET df == CityRows(source, city)
             row(k, f) ==
                 LET g == DailyGroup(df, k)
                 IN [date |-> k.date, city |-> k.city, geohash |-> k.geohash,
                     pm10_min |-> Min(g, "pm10"), pm10_max |-> Max(g, "pm10"),
                     pm10_avg |-> Mean(g, "pm10"),
                     pm2_5_min |-> Min(g, "pm2_5"), pm2_5_max |-> Max(g, "pm2_5"),
                     pm2_5_avg |-> Mean(g, "pm2_5"),
                     co_min |-> Min(g, "carbon_monoxide"),
                     co_max |-> Max(g, "carbon_monoxide"),
                     co_avg |-> Mean(g, "carbon_monoxide"),
                     latitude |-> k.geohash[2], longitude |-> k.geohash[3],
                     date_retrieved |-> f[k],
                     aqi_simplified |-> aqi_simplified(Mean(g, "pm2_5"))]
         IN IF DOMAIN df = {}
              THEN {Transformed(DataFrame(AirQualityDailyColumns, <<>>))}
            ELSE IF ~(AirQualityRawColumns \subseteq source.columns)
              THEN {TransformRaised("KeyError")}
            ELSE {Transformed(DataFrame(AirQualityDailyColumns,
                                        SeqOf({row(k, f) : k \in DOMAIN f}))) :
                    f \in DailyFirsts(df)}

\* The key of groupby(['hour', 'city']).
HourlyKey(r) == [hour |-> HourOf(r.time), city |-> r.city]

\* HourlyHistoricalAnalysisTransformer.transform
hourly_historical_transform(source, city) ==
    IF ~source.exists THEN {TransformRaised("TableNotFoundError")}
    ELSE IF "city" \notin source.columns THEN {TransformRaised("KeyError")}
    ELSE LET df == CityRows(source, city)
             row(k) ==
                 LET g == Restrict(df, {r \in DOMAIN df : HourlyKey(r) = k})
                 IN [hour |-> k.hour, city |-> k.city,
                     temp_min |-> Min(g, "temperature_2m"),
                     temp_max |-> Max(g, "temperature_2m"),
                     temp_avg |-> Mean(g, "temperature_2m"),
                     precipitation_avg |-> Mean(g, "precipitation"),
                     windspeed_avg |-> Mean(g, "windspeed_10m"),
                     days_count |-> Cardinality({DateOf(r.time) : r \in DOMAIN g})]
         IN IF DOMAIN df = {}
              THEN {Transformed(DataFrame(HourlyColumns, <<>>))}
            ELSE IF ~(WeatherRawColumns \subseteq source.columns)
              THEN {TransformRaised("KeyError")}
            ELSE {Transformed(DataFrame(HourlyColumns,
                      SeqOf({row(k) : k \in {HourlyKey(r) : r \in DOMAIN df}})))}

\* Mutant of calculate_health_alert: the first threshold is exclusive.
calculate_health_alert_exclusive(row) ==
    IF RLess(Whole(75), row.aqi_simplified) THEN "HIGH_ALERT"
    ELSE IF ~RLess(row.aqi_simplified, Whole(50))
            /\ (RLess(Whole(30), row.temp_avg) \/ RLess(row.temp_avg, Whole(10)))
      THEN "MODERATE_ALERT"
    ELSE IF ~RLess(row.aqi_simplified, Whole(50))
            \/ RLess(Whole(35), row.temp_avg) \/ RLess(row.temp_avg, Whole(5))
      THEN "LOW_ALERT"
    ELSE "GOOD"

\* ForecastCombinedTransformer._calculate_health_alert
calculate_health_alert(row) ==
    LET aqi == row.aqi_simplified
        temp == row.temp_avg
        above(x, n) == RLess(Whole(n), x)
        below(x, n) == RLess(x, Whole(n))
    IN IF ~below(aqi, 75) THEN "HIGH_ALERT"
       ELSE IF ~below(aqi, 50) /\ (above(temp, 30) \/ below(temp, 10))
         THEN "MODERATE_ALERT"
       ELSE IF ~below(aqi, 50) \/ above(temp, 35) \/ below(temp, 5)
         THEN "LOW_ALERT"
       ELSE "GOOD"

\* ForecastCombinedTransformer._calculate_allergy_risk
calculate_allergy_risk(row) ==
    LET above(x, n) == RLess(Whole(n), x)
    IN IF above(row.pm10_avg, 50) /\ above(row.avg_windspeed, 20) THEN "HIGH"
       ELSE IF above(row.pm2_5_avg, 15)
               \/ (above(row.pm10_avg, 30) /\ above(row.avg_windspeed, 10))
         THEN "MODERATE"
       ELSE "LOW"

\* int(score): truncation towards zero.
Truncate(x) == IF x.num < 0 THEN -((-x.num) \div x.den) ELSE x.num \div x.den

\* max(lo, min(hi, n))
Clamp(n, lo, hi) == IF n < lo THEN lo ELSE IF n > hi THEN hi ELSE n

\* Mutant of TemperaturePenalty: cold days cost as much per degree as hot
\* ones.
TemperaturePenalty_symmetric(temp_avg) ==
    IF RLess(Whole(30), temp_avg)
      THEN RMul(RSub(temp_avg, Whole(30)), Whole(2))
    ELSE IF RLess(temp_avg, Whole(15))
      THEN RMul(RSub(Whole(15), temp_avg), Whole(2))
    ELSE Whole(0)

\* The amounts _calculate_outdoor_score takes off the score for the
\* temperature, the precipitation and the wind.
TemperaturePenalty(temp_avg) ==
    IF RLess(Whole(30), temp_avg)
      THEN RMul(RSub(temp_avg, Whole(30)), Whole(2))
    ELSE IF RLess(temp_avg, Whole(15))
      THEN RMul(RSub(Whole(15), temp_avg), Ratio(3, 2))
    ELSE Whole(0)

PrecipitationPenalty(total_precipitation) ==
    IF total_precipitation > 0
      THEN RMin(Whole(20), Whole(total_precipitation * 10))
    ELSE Whole(0)

WindPenalty(avg_windspeed) ==
    IF RLess(Whole(30), avg_windspeed) THEN RSub(avg_windspeed, Whole(30))
    ELSE Whole(0)

\* ForecastCombinedTransformer._calculate_outdoor_score: the score starts at
\* 100 and each amount is taken off in turn.
calculate_outdoor_score(row) ==
    Clamp(Truncate(RSub(RSub(RSub(RSub(Whole(100),
                                       RMul(row.aqi_simplified, Ratio(1, 2))),
                                  TemperaturePenalty(row.temp_avg)),
                             PrecipitationPenalty(row.total_precipitation)),
                        WindPenalty(row.avg_windspeed))),
          0, 100)

\* The columns transform() takes from both sides of the join under the
\* suffix '_weather', and the ones it takes under their own names.
SuffixedColumns == {"geohash", "latitude", "longitude", "date_retrieved"}

PlainColumns ==
    {"temp_min", "temp_max", "temp_avg", "temp_range", "total_precipitation",
     "avg_windspeed", "pm10_avg", "pm2_5_avg", "co_avg", "aqi_simplified"}

RECURSIVE PairCopies(_, _, _)
PairCopies(P, w, a) ==
    IF P = {} THEN 0
    ELSE LET p == CHOOSE x \in P : TRUE
         IN w[p[1]] * a[p[2]] + PairCopies(P \ {p}, w, a)

\* result_df['health_alert'] = result_df.apply(..., axis=1) on a frame with
\* no rows: apply returns a frame, not a column, and the assignment raises
\* or not with the version of the library.
EmptyJoinResults ==
    {TransformRaised("ValueError"), Transformed(DataFrame(CombinedColumns, <<>>))}

\* ForecastCombinedTransformer.transform
forecast_combined_transform(weather, air_quality, city) ==
    IF ~weather.exists \/ ~air_quality.exists
      THEN {TransformRaised("TableNotFoundError")}
    ELSE IF "city" \notin weather.columns \/ "city" \notin air_quality.columns
      THEN {TransformRaised("KeyError")}
    ELSE LET w == CityRows(weather, city)
             a == CityRows(air_quality, city)
             both == weather.columns \cap air_quality.columns
             either == weather.columns \cup air_quality.columns
             joined == {p \in (DOMAIN w) \X (DOMAIN a) : p[1].date = p[2].date}
             result(p) ==
                 LET j == [c \in {"date", "city"} \cup SuffixedColumns \cup PlainColumns |->
                             IF c \in weather.columns THEN p[1][c] ELSE p[2][c]]
                 IN [c \in CombinedColumns |->
                       IF c = "health_alert" THEN calculate_health_alert(j)
                       ELSE IF c = "allergy_risk" THEN calculate_allergy_risk(j)
                       ELSE IF c = "outdoor_score" THEN calculate_outdoor_score(j)
                       ELSE j[c]]
             rows == [x \in {result(p) : p \in joined} |->
                        PairCopies({p \in joined : result(p) = x}, w, a)]
         IN IF DOMAIN w = {} \/ DOMAIN a = {}
              THEN {Transformed(DataFrame(CombinedColumns, <<>>))}
            ELSE IF "date" \notin both
                    \/ ~(SuffixedColumns \subseteq both)
                    \/ ~(PlainColumns \subseteq either \ both)
              THEN {TransformRaised("KeyError")}
            ELSE IF joined = {} THEN EmptyJoinResults
            ELSE {Transformed(DataFrame(CombinedColumns, SeqOfBag(rows)))}

(***************************************************************************)
(* Specification SpecBronze: run_extraction_load_bronze_pipeline.          *)
(*                                                                         *)
(* pc is the position of the run: its phase, the index of the city and of  *)
(* the dataset in hand, the batch extracted and not yet loaded, and the    *)
(* exception that ended it.  run holds the run's arguments and what the    *)
(* extraction collaborators answer during it, and the same of the run      *)
(* before it together with the store that run left.                        *)
(***************************************************************************)
MaxRuns == 2

\* The order of the four extract-and-load blocks of the loop body.
RawDatasets == <<"forecast", "historical", "air_quality", "nearest_stations">>

BronzePath(dataset) == Path("bronze", dataset)

\* The columns a wrangler returns, before the run tags the city.
ExtractedColumns(dataset) ==
    IF dataset = "nearest_stations" THEN {"name", "date_retrieved"}
    ELSE IF dataset = "air_quality" THEN AirQualityRawColumns \ {"city"}
    ELSE WeatherRawColumns \ {"city"}

\* What the collaborators measure: one reading per run.
Readings == {10, 30}

\* CITIES_COORDINATES_MAP, in whole degrees: <<latitude, longitude>>.
Coordinates(city) == IF city = "cordoba" THEN <<-31, -64>> ELSE <<-33, -61>>

\* One row of a wrangler's frame: an hour of the answer, the coordinates of
\* the answer's metadata and the day of retrieval.
wrangled(dataset, city, time, today, reading) ==
    IF dataset = "nearest_stations"
    THEN [name |-> city, date_retrieved |-> today]
    ELSE IF dataset = "air_quality"
      THEN [time |-> time, pm10 |-> reading, pm2_5 |-> reading,
            carbon_monoxide |-> reading,
            station_coordinates |-> Coordinates(city), date_retrieved |-> today]
      ELSE [time |-> time, temperature_2m |-> reading, precipitation |-> 1,
            windspeed_10m |-> 5,
            station_coordinates |-> Coordinates(city), date_retrieved |-> today]

\* extractor.extract(): the wrangled answer of the collaborator, one hourly
\* row stamped with the day of retrieval.
extract(dataset, city, today, reading) ==
    DataFrame(ExtractedColumns(dataset),
              <<wrangled(dataset, city, <<today, 0>>, today, reading)>>)

\* data["city"] = city
TagCity(data, city) ==
    DataFrame(data.columns \cup {"city"},
              [i \in DOMAIN data.rows |->
                 [c \in data.columns \cup {"city"} |->
                    IF c = "city" THEN city ELSE data.rows[i][c]]])

\* Mutant of bronze_load: the load appends the batch.
bronze_load_append(t, data) ==
    insert_overwrite_append(t, data, {"date_retrieved", "city"}, "date_retrieved")

\* loader.insert_overwrite(<dataset>, data, partition_by=["date_retrieved",
\* "city"]): the call passes no filter_col.
bronze_load(t, data) ==
    insert_overwrite(t, data, {"date_retrieved", "city"}, Missing)

NoBatch == DataFrame({}, <<>>)

Position(phase, i, d, data, error) ==
    [phase |-> phase, i |-> i, d |-> d, data |-> data, error |-> error]

Idle == Position("idle", 0, 0, NoBatch, "")

BronzeCityLists == {<<>>, <<"rosario">>, <<"cordoba", "rosario">>}

\* Rows a raw dataset may hold from earlier loads.
BronzeOldRow(dataset, city) ==
    TagCity(extract(dataset, city, "2024-01-01", 10), city).rows[1]

BronzeInitTables(dataset) ==
    {NoTable}
    \cup {Table(ExtractedColumns(dataset) \cup {"city"}, {"date_retrieved", "city"},
                SetToBag({BronzeOldRow(dataset, c) : c \in cs})) :
             cs \in {{"cordoba"}, Cities}}

InitBronze ==
    /\ store \in {f \in [{BronzePath(ds) : ds \in Range(RawDatasets)}
                           -> UNION {BronzeInitTables(ds) : ds \in Range(RawDatasets)}] :
                    \A ds \in Range(RawDatasets) :
                        f[BronzePath(ds)] \in BronzeInitTables(ds)}
    /\ last = NoCall
    /\ pc = Idle
    /\ run \in {[count |-> 0, cities |-> cs, today |-> "", reading |-> 0,
                  prev |-> [today |-> "", reading |-> 0, error |-> "",
                            store |-> << >>]] :
                   cs \in BronzeCityLists}

Ended == pc.phase \in {"done", "raised"}

\* The call of run_extraction_load_bronze_pipeline: the loader is built and
\* the loop over the cities entered.
BronzeStart ==
    /\ pc.phase = "idle" \/ Ended
    /\ run.count < MaxRuns
    /\ \E today \in Dates, reading \in Readings :
         run' = [run EXCEPT !.count = @ + 1, !.today = today, !.reading = reading,
                            !.prev = [today |-> run.today, reading |-> run.reading,
                                      error |-> pc.error, store |-> store]]
    /\ pc' = IF run.cities = <<>> THEN Position("done", 0, 0, NoBatch, "")
             ELSE Position("extract", 1, 1, NoBatch, "")
    /\ last' = NoCall
    /\ UNCHANGED store

\* <X>Extractor(...).extract(); data["city"] = city
BronzeExtract ==
    /\ pc.phase = "extract"
    /\ pc' = [pc EXCEPT !.phase = "load",
                        !.data = TagCity(extract(RawDatasets[pc.d], run.cities[pc.i],
                                                 run.today, run.reading),
                                         run.cities[pc.i])]
    /\ UNCHANGED <<store, last, run>>

\* response.raise_for_status() raises: the run ends with the HTTP error.
BronzeExtractFails ==
    /\ pc.phase = "extract"
    /\ pc' = [pc EXCEPT !.phase = "raised", !.error = "HTTPError"]
    /\ UNCHANGED <<store, last, run>>

\* loader.insert_overwrite(...) of the batch in hand, then the next block of
\* the loop body, the next city, or the end of the run; an exception of the
\* load ends the run.
BronzeLoad ==
    /\ pc.phase = "load"
    /\ LET dataset == RawDatasets[pc.d]
           r == bronze_load(store[BronzePath(dataset)], pc.data)
       IN /\ store' = [store EXCEPT ![BronzePath(dataset)] = r.table]
          /\ last' = Call("insert_overwrite", BronzePath(dataset), pc.data,
                          {"date_retrieved", "city"}, Missing, {},
                          store[BronzePath(dataset)], r)
          /\ pc' = IF r.outcome # "ok"
                     THEN [pc EXCEPT !.phase = "raised", !.error = r.outcome]
                   ELSE IF pc.d < Len(RawDatasets)
                     THEN Position("extract", pc.i, pc.d + 1, NoBatch, "")
                   ELSE IF pc.i < Len(run.cities)
                     THEN Position("extract", pc.i + 1, 1, NoBatch, "")
                   ELSE Position("done", pc.i, pc.d, NoBatch, "")
    /\ UNCHANGED run

NextBronze == BronzeStart \/ BronzeExtract \/ BronzeExtractFails \/ BronzeLoad

SpecBronze == InitBronze /\ [][NextBronze]_vars

(***************************************************************************)
(* Specification SpecLayers: run_transformation_silver_pipeline and        *)
(* run_transformation_gold_pipeline.                                       *)
(*                                                                         *)
(* The store holds the raw tables the aggregators read and the tables of   *)
(* the two layers, each absent, written by earlier runs, or left with      *)
(* another schema by an earlier version.  pc is the position of the run:   *)
(* the city, the transformer of the loop body in hand, and its result not  *)
(* yet loaded.                                                             *)
(***************************************************************************)
MaxLayerRuns == 2

\* Mutant of SilverSteps: the forecast block comes before the air-quality
\* block.
SilverSteps_reordered ==
    <<[transformer |-> "WeatherSummaryTransformer",
       location |-> "weather_summary", on |-> {"date", "city"}],
      [transformer |-> "WeatherForecastTransformer",
       location |-> "weather_forecast", on |-> {"date", "city"}],
      [transformer |-> "AirQualityDailyTransformer",
       location |-> "air_quality_daily", on |-> {"date", "city"}],
      [transformer |-> "HourlyHistoricalAnalysisTransformer",
       location |-> "hourly_historical_analysis", on |-> {"hour", "city"}]>>

\* The blocks of the silver loop body: the transformer, the location it is
\* loaded to and the columns of the merge predicate.
SilverSteps ==
    <<[transformer |-> "WeatherSummaryTransformer",
       location |-> "weather_summary", on |-> {"date", "city"}],
      [transformer |-> "AirQualityDailyTransformer",
       location |-> "air_quality_daily", on |-> {"date", "city"}],
      [transformer |-> "WeatherForecastTransformer",
       location |-> "weather_forecast", on |-> {"date", "city"}],
      [transformer |-> "HourlyHistoricalAnalysisTransformer",
       location |-> "hourly_historical_analysis", on |-> {"hour", "city"}]>>

GoldSteps ==
    <<[transformer |-> "ForecastCombinedTransformer",
       location |-> "forecast_combined", on |-> {"date", "city"}]>>

Steps(datalake_layer) ==
    IF datalake_layer = "silver" THEN SilverSteps ELSE GoldSteps

\* <X>Transformer(storage_options, city).transform(): the datasets property
\* opens the source tables of the transformer's source_layer.
transform(transformer, city, s) ==
    CASE transformer = "WeatherSummaryTransformer" ->
           weather_daily_transform(s[Path("bronze", "historical")], city)
      [] transformer = "AirQualityDailyTransformer" ->
           air_quality_daily_transform(s[Path("bronze", "air_quality")], city)
      [] transformer = "WeatherForecastTransformer" ->
           weather_daily_transform(s[Path("bronze", "forecast")], city)
      [] transformer = "HourlyHistoricalAnalysisTransformer" ->
           hourly_historical_transform(s[Path("bronze", "historical")], city)
      [] transformer = "ForecastCombinedTransformer" ->
           forecast_combined_transform(s[Path("silver", "weather_forecast")],
                                       s[Path("silver", "air_quality_daily")],
                                       city)

\* Mutant of layer_load: the merge predicate without its city term.
layer_load_without_city(t, data, on) ==
    merge_upsert(t, data, on \ {"city"}, {"city"})

\* loader.merge_upsert(location, data, predicate="tgt.<k> = src.<k> AND
\* tgt.city = src.city", partition_by=["city"])
layer_load(t, data, on) == merge_upsert(t, data, on, {"city"})

\* Mutant of empty: no frame counts as empty.
empty_never(data) == FALSE

\* <x>_data.empty
empty(data) == data.rows = <<>>

LayerCities == <<"cordoba", "rosario">>

SourceDatasets == {"forecast", "historical", "air_quality"}

LayerPaths ==
    {BronzePath(ds) : ds \in SourceDatasets}
    \cup {Path("silver", SilverSteps[i].location) : i \in DOMAIN SilverSteps}
    \cup {Path("gold", GoldSteps[i].location) : i \in DOMAIN GoldSteps}

\* Two hourly rows of one day for a city, retrieved on the given days.
RawRowsOf(dataset, city, reading, retrieved) ==
    Range(TagCity(DataFrame(ExtractedColumns(dataset),
                            <<wrangled(dataset, city, <<"2024-01-01", 0>>,
                                       "2024-01-01", reading),
                              wrangled(dataset, city, <<"2024-01-01", 1>>,
                                       retrieved, reading + 20)>>),
                  city).rows)

RawTable(dataset, rows) ==
    Table(ExtractedColumns(dataset) \cup {"city"}, {"date_retrieved", "city"},
          SetToBag(rows))

\* The store an earlier run read, and what it wrote from it.
EarlierBronze ==
    [p \in {BronzePath(ds) : ds \in SourceDatasets} |->
       RawTable(p[2], RawRowsOf(p[2], "cordoba", 20, "2024-01-01")
                      \cup RawRowsOf(p[2], "rosario", 20, "2024-01-01"))]

EarlierRows(step, s) ==
    LET rows(city) == (CHOOSE o \in transform(step.transformer, city, s) :
                         o.error = "").data.rows
    IN SeqToBag(rows("cordoba") \o rows("rosario"))

EarlierColumns(step) ==
    (CHOOSE o \in transform(step.transformer, "cordoba", EarlierBronze) :
       o.error = "").data.columns

EarlierSilver ==
    [p \in {Path("silver", SilverSteps[i].location) : i \in DOMAIN SilverSteps} |->
       LET step == CHOOSE st \in Range(SilverSteps) : st.location = p[2]
       IN Table(EarlierColumns(step), {"city"}, EarlierRows(step, EarlierBronze))]

EarlierGold ==
    Table(CombinedColumns, {"city"}, EarlierRows(GoldSteps[1], EarlierSilver))

\* A table an earlier version left with another schema: it holds a row of
\* rosario.
LegacyTable(on) ==
    Table(on \cup {"legacy"}, {"city"},
          SetToBag({[c \in on \cup {"legacy"} |->
                       CASE c = "city" -> "rosario"
                         [] c = "date" -> "2024-01-01"
                         [] OTHER -> 0]}))

\* A row of a day whose answer came from the neighbouring grid cell: the
\* collaborator chooses the cell, and the wranglers store the coordinates
\* of the answer, not of the request.
OtherCellRows(dataset, city) ==
    {[r EXCEPT !.station_coordinates = <<@[1] + 1, @[2]>>, !.time = <<@[1], 2>>] :
       r \in RawRowsOf(dataset, city, 10, "2024-01-01")}

\* The frame a raw run of the given day loads for bronze/historical: the
\* request covers the days from start_date to end_date, so the hours of the
\* first day come again in the run of the second day, stamped with it.
LookbackBatch(city, today) ==
    TagCity(DataFrame(ExtractedColumns("historical"),
                      <<wrangled("historical", city, <<"2024-01-01", 0>>, today, 10),
                        wrangled("historical", city, <<"2024-01-01", 1>>, today, 30)>>
                      \o (IF today = "2024-01-01" THEN <<>>
                          ELSE <<wrangled("historical", city, <<today, 0>>,
                                          today, 30)>>)),
            city)

\* The table two loads of retrieval days one after the other leave:
\* insert_overwrite with filter_col date_retrieved keeps the partition of
\* the first day.
RetrievedAgain(city) ==
    insert_overwrite(
        insert_overwrite(NoTable, LookbackBatch(city, "2024-01-01"),
                         {"date_retrieved", "city"}, "date_retrieved").table,
        LookbackBatch(city, "2024-01-02"),
        {"date_retrieved", "city"}, "date_retrieved").table

\* The tables a path can hold when a run starts.
LayerTables(p) ==
    IF p = BronzePath("historical")
      THEN <<NoTable,
             RawTable(p[2], RawRowsOf(p[2], "cordoba", 10, "2024-01-01")),
             RawTable(p[2], RawRowsOf(p[2], "cordoba", 10, "2024-01-02")
                            \cup RawRowsOf(p[2], "rosario", 10, "2024-01-01")),
             RawTable(p[2], RawRowsOf(p[2], "cordoba", 10, "2024-01-01")
                            \cup OtherCellRows(p[2], "cordoba")),
             RetrievedAgain("cordoba")>>
    ELSE IF p[1] = "bronze"
      THEN <<NoTable,
             RawTable(p[2], RawRowsOf(p[2], "cordoba", 10, "2024-01-01")),
             RawTable(p[2], RawRowsOf(p[2], "cordoba", 10, "2024-01-02")
                            \cup RawRowsOf(p[2], "rosario", 10, "2024-01-01")),
             RawTable(p[2], RawRowsOf(p[2], "cordoba", 10, "2024-01-01")
                            \cup OtherCellRows(p[2], "cordoba"))>>
    ELSE IF p[1] = "silver"
      THEN <<NoTable, EarlierSilver[p],
             LegacyTable(IF p[2] = "hourly_historical_analysis"
                         THEN {"hour", "city"} ELSE {"date", "city"})>>
    ELSE <<NoTable, EarlierGold, LegacyTable({"date", "city"})>>

\* The number of tables LayerTables gives for a path.
LayerChoices(p) ==
    IF p = BronzePath("historical") THEN 5 ELSE IF p[1] = "bronze" THEN 4 ELSE 3

InitLayers ==
    /\ \E pick \in [LayerPaths -> 1..5] :
         /\ \A p \in LayerPaths : pick[p] <= LayerChoices(p)
         /\ store = [p \in LayerPaths |-> LayerTables(p)[pick[p]]]
    /\ last = NoCall
    /\ pc = Idle
    /\ run = [count |-> 0, cities |-> LayerCities, layer |-> ""]

\* The call of one of the two pipelines: the loader of the layer is built
\* and the loop over the cities entered.
LayerStart ==
    /\ pc.phase = "idle" \/ Ended
    /\ run.count < MaxLayerRuns
    /\ \E datalake_layer \in {"silver", "gold"} :
         run' = [run EXCEPT !.count = @ + 1, !.layer = datalake_layer]
    /\ pc' = Position("transform", 1, 1, NoBatch, "")
    /\ last' = NoCall
    /\ UNCHANGED store

\* <x>_transformer.transform(): an exception ends the run.
LayerTransform ==
    /\ pc.phase = "transform"
    /\ \E out \in transform(Steps(run.layer)[pc.d].transformer, run.cities[pc.i],
                            store) :
         pc' = IF out.error # ""
                 THEN [pc EXCEPT !.phase = "raised", !.error = out.error]
               ELSE [pc EXCEPT !.phase = "load", !.data = out.data]
    /\ UNCHANGED <<store, last, run>>

\* if not <x>_data.empty: loader.merge_upsert(...); then the next block of
\* the loop body, the next city, or the end of the run.  An exception of the
\* load ends the run.
LayerLoad ==
    /\ pc.phase = "load"
    /\ LET step == Steps(run.layer)[pc.d]
           path == Path(run.layer, step.location)
           skip == empty(pc.data)
           r == IF skip THEN Result(store[path], "ok", <<>>)
                ELSE layer_load(store[path], pc.data, step.on)
       IN /\ store' = [store EXCEPT ![path] = r.table]
          /\ last' = IF skip THEN NoCall
                     ELSE Call("merge_upsert", path, pc.data, {"city"}, "",
                               step.on, store[path], r)
          /\ pc' = IF r.outcome # "ok"
                     THEN [pc EXCEPT !.phase = "raised", !.error = r.outcome]
                   ELSE IF pc.d < Len(Steps(run.layer))
                     THEN Position("transform", pc.i, pc.d + 1, NoBatch, "")
                   ELSE IF pc.i < Len(run.cities)
                     THEN Position("transform", pc.i + 1, 1, NoBatch, "")
                   ELSE Position("done", pc.i, pc.d, NoBatch, "")
    /\ UNCHANGED run

NextLayers == LayerStart \/ LayerTransform \/ LayerLoad

SpecLayers == InitLayers /\ [][NextLayers]_vars

(***************************************************************************)
(* Specification SpecScores: the row-wise calculations of the transformers *)
(* applied to rows drawn from a grid.  Temperature, wind speed and the     *)
(* PM2.5 mean run over the halves, the index and the precipitation over    *)
(* the integers; last holds the row and what the calculation returned.     *)
(***************************************************************************)
MaxAqi == 100

MaxTemp == 45

MaxWind == 40

MaxPrecipitation == 3

MaxPm == 60

Halves(lo, hi) == {Ratio(n, 2) : n \in (2 * lo)..(2 * hi)}

ScoreRows ==
    [aqi_simplified : {Whole(n) : n \in {0, 1, 50, MaxAqi}},
     temp_avg : Halves(-MaxTemp, MaxTemp),
     total_precipitation : 0..MaxPrecipitation,
     avg_windspeed : {Whole(0), Whole(30), Ratio(61, 2), Whole(MaxWind)}]

AlertRows ==
    [aqi_simplified : {Whole(n) : n \in 0..MaxAqi},
     temp_avg : {Whole(n) : n \in 0..MaxTemp}]

Calculated(op, row, result) == [op |-> op, row |-> row, result |-> result]

InitScores ==
    /\ store = <<>>
    /\ last = NoCall
    /\ pc = "idle"
    /\ run = 0

\* result_df.apply(self._calculate_health_alert, axis=1), one row
CalculateHealthAlert ==
    /\ pc = "idle"
    /\ \E row \in AlertRows :
         last' = Calculated("health_alert", row, calculate_health_alert(row))
    /\ pc' = "returned"
    /\ UNCHANGED <<store, run>>

\* result_df.apply(self._calculate_outdoor_score, axis=1), one row
CalculateOutdoorScore ==
    /\ pc = "idle"
    /\ \E row \in ScoreRows :
         last' = Calculated("outdoor_score", row, calculate_outdoor_score(row))
    /\ pc' = "returned"
    /\ UNCHANGED <<store, run>>

\* agg_df['pm2_5_avg'].apply(lambda x: ...), one value
CalculateAqi ==
    /\ pc = "idle"
    /\ \E pm2_5_avg \in Halves(0, MaxPm) :
         last' = Calculated("aqi_simplified", [pm2_5_avg |-> pm2_5_avg],
                            aqi_simplified(pm2_5_avg))
    /\ pc' = "returned"
    /\ UNCHANGED <<store, run>>

NextScores == CalculateHealthAlert \/ CalculateOutdoorScore \/ CalculateAqi \/ Return

SpecScores == InitScores /\ [][NextScores]_vars

(***************************************************************************)
(* Specification SpecExtractors: the extractor classes.  session and       *)
(* request are class attributes: one Session and one Request per class,    *)
(* shared by every instance of the class.  store holds, per class, the     *)
(* params of the two; run holds the instances constructed so far, each     *)
(* with its own attributes; last holds the request an extract() sent.      *)
(***************************************************************************)
MaxInstances == 2

ExtractorClasses ==
    {"ForecastExtractor", "HistoricalExtractor", "AirQualityExtractor",
     "NearestStationsExtractor"}

\* The params of the class's Request and Session when the class is defined.
ClassDefinition(cls) ==
    [request |-> IF cls = "NearestStationsExtractor"
                 THEN [limit |-> 50, radius |-> 100000]
                 ELSE IF cls = "AirQualityExtractor"
                 THEN [hourly |-> "pm10,pm2_5,carbon_monoxide"]
                 ELSE [hourly |-> "temperature_2m,precipitation,windspeed_10m"],
     session |-> <<>>]

\* The order of two days.
DayNumber(day) == IF day = "2024-01-01" THEN 1 ELSE 2

Instance(cls, longitude, latitude, start_date, end_date) ==
    [cls |-> cls, longitude |-> longitude, latitude |-> latitude,
     start_date |-> start_date, end_date |-> end_date]

\* BaseExractor.__init__: the shared session's params are replaced.
base_init(class, longitude, latitude) ==
    [class EXCEPT !.session = [longitude |-> longitude, latitude |-> latitude]]

\* HistoricalExtractor.__init__ past its check of the dates: the shared
\* request's params get the dates.
historical_init(class, start_date, end_date) ==
    [class EXCEPT !.request =
       [k \in DOMAIN @ \cup {"start_date", "end_date"} |->
          IF k = "start_date" THEN start_date
          ELSE IF k = "end_date" THEN end_date ELSE @[k]]]

\* NearestStationsExtractor.__init__ after super().__init__: the shared
\* session's params are replaced again.
nearest_stations_init(class, longitude, latitude) ==
    [class EXCEPT !.session = [lat |-> latitude, lon |-> longitude]]

\* self.session.prepare_request(self.request): the params of the request
\* sent are the session's, overridden by the request's.
prepare_request(class) == class.request @@ class.session

Sent(i, params) == [op |-> "extract", instance |-> i, params |-> params]

InitExtractors ==
    /\ store = [cls \in ExtractorClasses |-> ClassDefinition(cls)]
    /\ run = <<>>
    /\ last = NoCall
    /\ pc = "idle"

\* <X>Extractor(...): the constructor returns an instance.
Construct ==
    /\ Len(run) < MaxInstances
    /\ \E cls \in ExtractorClasses, city \in Cities, start_date, end_date \in Dates :
         LET latitude == Coordinates(city)[1]
             longitude == Coordinates(city)[2]
             based == base_init(store[cls], longitude, latitude)
         IN /\ cls = "HistoricalExtractor" => DayNumber(start_date) <= DayNumber(end_date)
            /\ cls # "HistoricalExtractor" => start_date = end_date
            /\ store' = [store EXCEPT ![cls] =
                           IF cls = "HistoricalExtractor"
                             THEN historical_init(based, start_date, end_date)
                           ELSE IF cls = "NearestStationsExtractor"
                             THEN nearest_stations_init(based, longitude, latitude)
                           ELSE based]
            /\ run' = Append(run, Instance(cls, longitude, latitude,
                                           IF cls = "HistoricalExtractor"
                                             THEN start_date ELSE "",
                                           IF cls = "HistoricalExtractor"
                                             THEN end_date ELSE ""))
    /\ UNCHANGED <<last, pc>>

\* HistoricalExtractor(start_date, end_date, ...) with start_date after
\* end_date: ValueError is raised after super().__init__ has run, and no
\* instance is returned.
ConstructRaises ==
    /\ \E city \in Cities, start_date, end_date \in Dates :
         /\ DayNumber(start_date) > DayNumber(end_date)
         /\ store' = [store EXCEPT !["HistoricalExtractor"] =
                        base_init(@, Coordinates(city)[2], Coordinates(city)[1])]
    /\ UNCHANGED <<run, last, pc>>

\* instance.extract(): _extract_raw prepares and sends the class's request
\* through the class's session.
Extract ==
    /\ \E i \in DOMAIN run : last' = Sent(i, prepare_request(store[run[i].cls]))
    /\ UNCHANGED <<store, run, pc>>

NextExtractors == Construct \/ ConstructRaises \/ Extract

SpecExtractors == InitExtractors /\ [][NextExtractors]_vars

(***************************************************************************)
(* Properties of the load strategies, stated on the call held in last:     *)
(* last.before is the table the call found, tbl the table it left.         *)
(***************************************************************************)
OneValue(data, col) ==
    \A i, j \in DOMAIN data.rows : data.rows[i][col] = data.rows[j][col]

UniqueKeys(data, on) ==
    \A i, j \in DOMAIN data.rows :
        Key(data.rows[i], on) = Key(data.rows[j], on) => i = j

\* The merge was issued against an existing table and raised.
MergeRaised ==
    /\ last.op = "merge_upsert"
    /\ last.before.exists
    /\ last.log # <<>>
    /\ last.log[1].call = "merge"
    /\ ~last.log[1].ok

\* The batch of an insert_overwrite of one (city, date_retrieved) partition.
OnePartitionOverwrite ==
    /\ last.op = "insert_overwrite"
    /\ last.partition_by = {"date_retrieved", "city"}
    /\ last.filter_col = "date_retrieved"
    /\ last.data.columns = RawColumns
    /\ last.data.rows # <<>>
    /\ OneValue(last.data, "city")
    /\ OneValue(last.data, "date_retrieved")

\* C1: an insert_overwrite of a batch of one city C and one date_retrieved D,
\* partitioned by (date_retrieved, city) and filtered on date_retrieved,
\* leaves every existing row of another city or another date_retrieved as
\* it was.
C1_PartitionIsolation ==
    OnePartitionOverwrite =>
      LET C == last.data.rows[1]["city"]
          D == last.data.rows[1]["date_retrieved"]
      IN \A r \in DOMAIN last.before.rows :
           (r["city"] # C \/ r["date_retrieved"] # D)
             => CopiesIn(r, tbl.rows) = CopiesIn(r, last.before.rows)

\* What the code does hold: rows of another date_retrieved are untouched.
C1_OtherDatesKept ==
    OnePartitionOverwrite =>
      LET D == last.data.rows[1]["date_retrieved"]
      IN \A r \in DOMAIN last.before.rows :
           r["date_retrieved"] # D
             => CopiesIn(r, tbl.rows) = CopiesIn(r, last.before.rows)

\* C4: a merge_upsert of a batch with unique keys into an existing table
\* leaves exactly the target rows whose key matches no source row, unchanged,
\* plus the source rows: every matched target row is replaced by the source
\* row of its key and every unmatched source row is inserted once.
C4_MergeCorrectness ==
    ( /\ last.op = "merge_upsert"
      /\ last.before.exists
      /\ last.data.columns = last.before.columns
      /\ last.on \subseteq last.data.columns
      /\ UniqueKeys(last.data, last.on) )
    =>
      LET src == Range(last.data.rows)
          tgt == last.before.rows
          Unmatched(tr) == \A sr \in src : Key(sr, last.on) # Key(tr, last.on)
          Replaced(sr) == {tr \in DOMAIN tgt : Key(tr, last.on) = Key(sr, last.on)}
          NReplaced(sr) == BagCardinality([tr \in Replaced(sr) |-> tgt[tr]])
      IN /\ last.outcome = "ok"
         /\ BagToSet(tbl.rows) = {tr \in DOMAIN tgt : Unmatched(tr)} \cup src
         /\ \A tr \in DOMAIN tgt :
               Unmatched(tr) => CopiesIn(tr, tbl.rows) = CopiesIn(tr, tgt)
         /\ \A sr \in src :
               CopiesIn(sr, tbl.rows) =
                 IF Replaced(sr) = {} THEN 1 ELSE NReplaced(sr)
         /\ tbl.columns = last.before.columns
         /\ tbl.partition_by = last.before.partition_by

\* A merge that keeps one target row, replaces another and inserts a new one.
C4_Witness ==
    /\ last.op = "merge_upsert"
    /\ last.before.exists
    /\ last.outcome = "ok"
    /\ last.on = {"date_retrieved", "city"}
    /\ UniqueKeys(last.data, last.on)
    /\ \E kept \in DOMAIN last.before.rows, old \in DOMAIN last.before.rows,
          new \in Range(last.data.rows), added \in Range(last.data.rows) :
          /\ kept \in DOMAIN tbl.rows
          /\ Key(old, last.on) = Key(new, last.on)
          /\ old # new
          /\ old \notin DOMAIN tbl.rows
          /\ \A tr \in DOMAIN last.before.rows : Key(tr, last.on) # Key(added, last.on)
          /\ added \in DOMAIN tbl.rows
    /\ BagCardinality(tbl.rows) = 3

\* C5: an insert_overwrite whose partition_by holds a column the batch lacks,
\* or whose filter_col is not in partition_by, raises the partition-spec
\* ValueError before any store call and leaves the table as it was; with
\* partition_by a non-empty proper subset of the batch's columns and
\* filter_col in it, validation passes.  (Stated for non-empty batches.)
C5_PartitionSpecValidation ==
    (last.op = "insert_overwrite" /\ last.data.rows # <<>>) =>
      /\ ( \/ ~(last.partition_by \subseteq last.data.columns)
           \/ last.filter_col \notin last.partition_by )
         => ( /\ last.outcome = "ValueError"
              /\ last.log = <<>>
              /\ tbl = last.before )
      /\ ( /\ last.partition_by # {}
           /\ last.partition_by \subseteq last.data.columns
           /\ last.partition_by # last.data.columns
           /\ last.filter_col \in last.partition_by )
         => last.outcome # "ValueError"

\* The fallback write of merge_upsert, as the code issues it.
FallbackWrite(ok) == StoreCall("write", "error", last.partition_by, NoPredicate, ok)

C8_DeleteInsertResult ==
    (last.op = "delete_insert" /\ last.outcome = "ok") =>
      LET v == last.data.rows[1][last.filter_col]
          prior == last.before.rows
          hit == \E r \in DOMAIN prior : r[last.filter_col] = v
          deletes == {i \in DOMAIN last.log : last.log[i].call = "delete"}
      IN /\ tbl.rows = Restrict(prior, {r \in DOMAIN prior : r[last.filter_col] # v})
                          (+) SeqToBag(last.data.rows)
         /\ (deletes # {}) <=> (last.before.exists /\ hit)
         /\ ~last.before.exists
              => tbl = Table(last.data.columns, last.partition_by,
                             SeqToBag(last.data.rows))

\* A delete_insert that deleted a partition, kept another and appended.
C8_Witness ==
    /\ last.op = "delete_insert"
    /\ last.outcome = "ok"
    /\ Len(last.log) = 2
    /\ \E r \in DOMAIN last.before.rows :
          /\ r[last.filter_col] = last.data.rows[1][last.filter_col]
          /\ r \notin DOMAIN tbl.rows
    /\ \E r \in DOMAIN last.before.rows :
          /\ r[last.filter_col] # last.data.rows[1][last.filter_col]
          /\ r \in DOMAIN tbl.rows

\* The batch of a merge has at most one row per key of the predicate.
UniqueMergeKeys ==
    last.on \subseteq last.data.columns => UniqueKeys(last.data, last.on)

\* The call held in last, applied once more to the table it left.
Again ==
    CASE last.op = "merge_upsert" ->
           merge_upsert(tbl, last.data, last.on, last.partition_by)
      [] last.op = "delete_insert" ->
           delete_insert(tbl, last.data, last.filter_col, last.partition_by)
      [] last.op = "insert_overwrite" ->
           insert_overwrite(tbl, last.data, last.partition_by, last.filter_col)

\* C9 (as claimed): each strategy applied twice with the same batch and
\* arguments leaves the table that applying it once leaves, for any table and
\* any batch, a delete_insert batch of several filter_col values included.
\* (Stated for merge batches with unique keys.)
C9_Idempotent ==
    (last.op # "none" /\ (last.op = "merge_upsert" => UniqueMergeKeys))
      => Again.table = tbl

\* The batch obeys the single-key rule of its strategy: unique keys for a
\* merge, one filter_col value for a delete_insert or an insert_overwrite.
SingleKeyBatch ==
    IF last.op = "merge_upsert" THEN UniqueMergeKeys
    ELSE last.filter_col \in last.data.columns
           => OneValue(last.data, last.filter_col)

\* C9 (amended): each strategy applied twice with the same batch and
\* arguments leaves the table that applying it once leaves, for any table,
\* provided the batch's merge keys are unique (merge_upsert) or its rows
\* share one filter_col value (delete_insert, insert_overwrite).
C9_IdempotentOnSingleKeyBatch ==
    (last.op # "none" /\ SingleKeyBatch) => Again.table = tbl

\* A call of each kind that changed the table and whose repetition is checked.
C9_Witness ==
    /\ last.op = "delete_insert"
    /\ SingleKeyBatch
    /\ last.outcome = "ok"
    /\ Len(last.log) = 2
    /\ Len(last.data.rows) = 2
    /\ tbl # last.before

(***************************************************************************)
(* Properties of the raw-layer run.                                        *)
(***************************************************************************)
\* The batch the run in hand loads for the city at index i, dataset at d.
RunBatch(i, d) ==
    TagCity(extract(RawDatasets[d], run.cities[i], run.today, run.reading),
            run.cities[i])

\* The run in hand and the run before it extracted the same batches.
SameBatchesTwice ==
    /\ run.count >= 2
    /\ run.cities # <<>>
    /\ run.prev.today = run.today
    /\ run.prev.reading = run.reading
    /\ run.prev.error # "HTTPError"
    /\ pc.error # "HTTPError"

C3_RawRunLoadsEveryCity ==
    (Ended /\ run.cities # <<>> /\ pc.error # "HTTPError") =>
      /\ pc.phase = "done"
      /\ last.op = "insert_overwrite"
      /\ last.filter_col = "date_retrieved"
      /\ last.partition_by = {"date_retrieved", "city"}
      /\ \A i \in DOMAIN run.cities, d \in DOMAIN RawDatasets :
            LET t == store[BronzePath(RawDatasets[d])]
            IN /\ t.exists
               /\ t.partition_by = {"date_retrieved", "city"}
               /\ \A row \in Range(RunBatch(i, d).rows) : row \in DOMAIN t.rows

(***************************************************************************)
(* Properties of the silver and gold runs.                                 *)
(***************************************************************************)
\* The rows of a table that belong to another city than the given one.
OtherCityRows(t, city) ==
    Restrict(t.rows, {r \in DOMAIN t.rows : r.city # city})

\* C10: in a silver or gold run, the load performed for a city, fallback
\* included, leaves every row of every other city as it was, in every table
\* and whatever the tables held before: none inserted, updated or removed.
C10_CrossCityIsolation ==
    [][pc.phase = "load" =>
         \A p \in LayerPaths :
            OtherCityRows(store'[p], run.cities[pc.i])
              = OtherCityRows(store[p], run.cities[pc.i])]_vars

\* A load of a layer run has updated a row of its city in a table that also
\* holds rows of another city.
C10_Witness ==
    /\ last.op = "merge_upsert"
    /\ last.outcome = "ok"
    /\ last.location \in LayerPaths
    /\ pc.phase \in {"transform", "done"}
    /\ LET city == last.data.rows[1].city
           after == store[last.location]
       IN /\ \E r \in DOMAIN last.before.rows : r.city # city
          /\ \E r \in DOMAIN last.before.rows :
                r.city = city /\ r \notin DOMAIN after.rows
          /\ \A i \in DOMAIN last.data.rows :
                last.data.rows[i] \in DOMAIN after.rows

\* The position is the one a load step leaves: the next block or city is
\* about to start, or the run is over.
AfterLoad ==
    \/ pc.phase = "done"
    \/ pc.phase = "transform" /\ (pc.i > 1 \/ pc.d > 1)

\* C11: in a silver or gold run, when the transformer returned a frame with
\* no rows, the step makes no merge_upsert call and leaves every table as it
\* was; when the frame has rows, the step makes the merge_upsert call for the
\* block's location with that frame.
C11_EmptyResultSkip ==
    [][pc.phase = "load" =>
         IF pc.data.rows = <<>>
           THEN store' = store /\ last' = NoCall
         ELSE /\ last'.op = "merge_upsert"
              /\ last'.data = pc.data
              /\ last'.location
                   = Path(run.layer, Steps(run.layer)[pc.d].location)]_vars

\* A load step has just been skipped for a location whose table holds rows.
C11_Witness ==
    /\ AfterLoad
    /\ run.layer = "silver"
    /\ last = NoCall
    /\ pc.phase = "transform" /\ pc.d > 1
    /\ store[Path("silver", SilverSteps[pc.d - 1].location)].rows # <<>>

\* The tables a transformer reads (its datasets property).
Sources(transformer) ==
    CASE transformer = "WeatherSummaryTransformer" -> {Path("bronze", "historical")}
      [] transformer = "AirQualityDailyTransformer" -> {Path("bronze", "air_quality")}
      [] transformer = "WeatherForecastTransformer" -> {Path("bronze", "forecast")}
      [] transformer = "HourlyHistoricalAnalysisTransformer" ->
           {Path("bronze", "historical")}
      [] transformer = "ForecastCombinedTransformer" ->
           {Path("silver", "weather_forecast"), Path("silver", "air_quality_daily")}

\* The transformer in hand and its city.
Transformer == Steps(run.layer)[pc.d].transformer

City == run.cities[pc.i]

\* The transformer in hand has no input row for its city.
EmptyInput ==
    \E p \in Sources(Transformer) : DOMAIN CityRows(store[p], City) = {}

\* The run was ended by an exception of transform(), not of the load.
TransformFailed == pc.phase = "raised" /\ pc.data = NoBatch

\* C12: a transformer whose input holds no row of the requested city, the
\* case of a source table never written included, does not raise.
C12_EmptyInputNeverRaises == ~(TransformFailed /\ EmptyInput)

\* What holds of the code: with no input row for the city, the transformer
\* raises only when a source table does not exist.
C12_RaisesOnlyOnMissingSource ==
    TransformFailed /\ EmptyInput
      => \E p \in Sources(Transformer) : ~store[p].exists

\* C13: an exception raised while one city is processed does not end the
\* run: a run never stops by an exception with cities of its list still to
\* be processed.
C13_FailureDoesNotEndRun ==
    pc.phase = "raised" => pc.i = Len(run.cities)

(***************************************************************************)
(* Properties of the row-wise calculations.                                *)
(***************************************************************************)
\* C14: the health alert of a row with integer aqi and temp_avg is
\* HIGH_ALERT exactly when aqi >= 75; MODERATE_ALERT exactly when
\* 50 <= aqi < 75 and temp_avg is above 30 or below 10; LOW_ALERT exactly
\* when it is neither and aqi >= 50 or temp_avg is above 35 or below 5; and
\* GOOD in every other case.
C14_HealthAlertClassification ==
    last.op = "health_alert" =>
      LET aqi == last.row.aqi_simplified.num
          temp == last.row.temp_avg.num
          high == aqi >= 75
          moderate == ~high /\ aqi >= 50 /\ (temp > 30 \/ temp < 10)
          low == ~high /\ ~moderate /\ (aqi >= 50 \/ temp > 35 \/ temp < 5)
      IN /\ last.row.aqi_simplified.den = 1 /\ last.row.temp_avg.den = 1
         /\ last.result \in {"HIGH_ALERT", "MODERATE_ALERT", "LOW_ALERT", "GOOD"}
         /\ last.result = "HIGH_ALERT" <=> high
         /\ last.result = "MODERATE_ALERT" <=> moderate
         /\ last.result = "LOW_ALERT" <=> low
         /\ last.result = "GOOD" <=> ~high /\ ~moderate /\ ~low

\* The row aqi = 75, temp_avg = 20 has been classified: the first threshold
\* decides alone.
C14_Witness ==
    /\ last.op = "health_alert"
    /\ last.row = [aqi_simplified |-> Whole(75), temp_avg |-> Whole(20)]
    /\ last.result = "HIGH_ALERT"

\* The score of the claim, in quarters: temperature and wind speed are
\* halves, so every term times four is an integer.
ScoreInQuarters(aqi, temp2, precipitation, wind2) ==
    400 - 2 * aqi
        - (IF temp2 > 60 THEN 4 * (temp2 - 60)
           ELSE IF temp2 < 30 THEN 3 * (30 - temp2) ELSE 0)
        - (IF precipitation > 0
             THEN (IF 10 * precipitation < 20 THEN 40 * precipitation ELSE 80)
           ELSE 0)
        - (IF wind2 > 60 THEN 2 * (wind2 - 60) ELSE 0)

\* C15: outdoor_score is the integer clamp(0, 100, trunc(100 - aqi * 0.5
\* - tempTerm - precipTerm - windTerm)) with the three terms of the claim;
\* temp_avg = 30 with no index, rain or wind scores 100 and temp_avg = 40
\* scores 20 less.
C15_OutdoorScore ==
    last.op = "outdoor_score" =>
      LET row == last.row
          q == ScoreInQuarters(row.aqi_simplified.num,
                               (2 * row.temp_avg.num) \div row.temp_avg.den,
                               row.total_precipitation,
                               (2 * row.avg_windspeed.num) \div row.avg_windspeed.den)
          trunc == IF q >= 0 THEN q \div 4 ELSE -((-q) \div 4)
          calm == /\ row.aqi_simplified = Whole(0)
                  /\ row.total_precipitation = 0
                  /\ row.avg_windspeed = Whole(0)
      IN /\ last.result \in 0..100
         /\ last.result = (IF trunc < 0 THEN 0 ELSE IF trunc > 100 THEN 100 ELSE trunc)
         /\ calm /\ row.temp_avg = Whole(30) => last.result = 100
         /\ calm /\ row.temp_avg = Whole(40) => last.result = 80

\* A hot, calm, dry day with clean air has been scored.
C15_Witness ==
    /\ last.op = "outdoor_score"
    /\ last.row = [aqi_simplified |-> Whole(0), temp_avg |-> Whole(40),
                   total_precipitation |-> 0, avg_windspeed |-> Whole(0)]
    /\ last.result = 80

\* C16: for a PM2.5 mean of n/2 the index is min(100, (n/2) / 25 * 100),
\* that is min(100, 2n): never above 100, exactly 100 at 25 and still 100
\* at 50.
C16_AqiClamp ==
    last.op = "aqi_simplified" =>
      LET n == (2 * last.row.pm2_5_avg.num) \div last.row.pm2_5_avg.den
      IN /\ last.result = Whole(IF 2 * n < 100 THEN 2 * n ELSE 100)
         /\ ~RLess(Whole(100), last.result)
         /\ last.row.pm2_5_avg \in {Whole(25), Whole(50)}
              => last.result = Whole(100)

\* The index of a PM2.5 mean of 50 has been calculated.
C16_Witness ==
    /\ last.op = "aqi_simplified"
    /\ last.row.pm2_5_avg = Whole(50)
    /\ last.result = Whole(100)

(***************************************************************************)
(* Atomicity of the load strategies.  Every store operation commits on its *)
(* own: the table between two operations of a call is the table a failure  *)
(* of the second one, or a crash before it, leaves behind.                 *)
(***************************************************************************)
\* The rows of the table the call found, less the partition of the batch's
\* first row.
WithoutPartition ==
    Restrict(last.before.rows,
             {r \in DOMAIN last.before.rows :
                r[last.filter_col] # last.data.rows[1][last.filter_col]})

\* The delete of a delete_insert call went through and its append did not.
DeletedNotAppended ==
    /\ last.op = "delete_insert"
    /\ Len(last.log) = 2
    /\ last.log[1].call = "delete" /\ last.log[1].ok
    /\ last.log[2].call = "write" /\ ~last.log[2].ok

\* C17: delete_insert issues the delete and the append as two store
\* operations, the delete first, and when the append does not follow the
\* table is left without any row of the batch's partition and without the
\* batch; insert_overwrite issues at most one store operation, a single
\* write, and a call that does not return normally leaves the table as it
\* found it.
C17_DeleteInsertNotAtomic ==
    /\ last.op = "delete_insert" =>
          /\ \A i \in DOMAIN last.log :
                \/ last.log[i].call = "delete" /\ i = 1 /\ Len(last.log) = 2
                \/ last.log[i].call = "write" /\ last.log[i].mode = "append"
                   /\ i = Len(last.log)
          /\ DeletedNotAppended =>
                /\ last.outcome # "ok"
                /\ tbl.rows = WithoutPartition
                /\ \A r \in DOMAIN tbl.rows :
                      r[last.filter_col] # last.data.rows[1][last.filter_col]
    /\ last.op = "insert_overwrite" =>
          /\ Len(last.log) <= 1
          /\ \A i \in DOMAIN last.log :
                last.log[i].call = "write" /\ last.log[i].mode = "overwrite"
          /\ last.outcome # "ok" => tbl = last.before

\* A delete_insert call has removed rows of the batch's partition and its
\* append was refused: the rows are gone and the batch is not there.
C17_Witness ==
    /\ DeletedNotAppended
    /\ tbl.rows # last.before.rows
    /\ \E r \in DOMAIN last.before.rows :
          r[last.filter_col] = last.data.rows[1][last.filter_col]
    /\ \A i \in DOMAIN last.data.rows : last.data.rows[i] \notin DOMAIN tbl.rows

(***************************************************************************)
(* Order of the operations of a run.                                       *)
(***************************************************************************)
\* The order of the datasets within a city, as the claim gives it.
RawOrder == <<"forecast", "historical", "air_quality", "nearest_stations">>

EnrichedOrder ==
    <<"weather_summary", "air_quality_daily", "weather_forecast",
      "hourly_historical_analysis">>

\* The position moves from <<i, d>> as a sequential loop over the cities
\* and, within a city, over n datasets moves it: a first phase (extract or
\* transform) is followed by the load of the same city and dataset, and a
\* load by the first phase of the next dataset, else of the next city, else
\* by the end of the run; an exception stops the run where it is.
InOrder(first, n) ==
    /\ pc.phase \in {"idle", "done", "raised"} /\ pc' # pc =>
          pc' = Position(first, 1, 1, NoBatch, "") \/ pc'.phase = "done"
    /\ pc.phase = first =>
          /\ pc'.phase \in {"load", "raised"}
          /\ pc'.i = pc.i /\ pc'.d = pc.d
          /\ store' = store
    /\ pc.phase = "load" =>
          \/ pc'.phase = "raised" /\ pc'.i = pc.i /\ pc'.d = pc.d
          \/ pc.d < n /\ pc' = Position(first, pc.i, pc.d + 1, NoBatch, "")
          \/ pc.d = n /\ pc.i < Len(run.cities)
               /\ pc' = Position(first, pc.i + 1, 1, NoBatch, "")
          \/ pc.d = n /\ pc.i = Len(run.cities) /\ pc'.phase = "done"

C18_RawRunInOrder ==
    [][/\ InOrder("extract", Len(RawOrder))
       /\ pc.phase = "load" =>
             /\ last'.location = BronzePath(RawOrder[pc.d])
             /\ last'.data = pc.data]_vars

KeyOf(p) ==
    IF p[2] = "hourly_historical_analysis" THEN {"hour", "city"}
    ELSE {"date", "city"}

\* No two rows of the table, copies included, agree on the key.
OneRowPerKey(t, on) ==
    \A r1 \in DOMAIN t.rows :
       /\ t.rows[r1] = 1
       /\ \A r2 \in DOMAIN t.rows : Key(r1, on) = Key(r2, on) => r1 = r2

LoadedPaths == {p \in LayerPaths : p[1] \in {"silver", "gold"}}

\* C19: every silver and gold table holds at most one row per (date, city),
\* hourly_historical_analysis at most one per (hour, city), whatever raw
\* rows the runs read: also raw rows of one city and day with more than
\* one station coordinate.
C19_KeyUniqueness ==
    \A p \in LoadedPaths : OneRowPerKey(store[p], KeyOf(p))

\* No raw table holds two station coordinates for one city and day.
OneStationPerDay ==
    \A p \in LayerPaths \ LoadedPaths :
       \A r1, r2 \in DOMAIN store[p].rows :
          r1.city = r2.city /\ DateOf(r1.time) = DateOf(r2.time)
            => r1.station_coordinates = r2.station_coordinates

\* What holds of the code: the keys are unique as long as the raw rows of
\* a city and day carry one station coordinate; and the hourly table's keys
\* are unique in any case.
C19_UniqueWithOneStation ==
    /\ OneStationPerDay => C19_KeyUniqueness
    /\ OneRowPerKey(store[Path("silver", "hourly_historical_analysis")],
                    {"hour", "city"})

(***************************************************************************)
(* Properties of the extractors.                                           *)
(***************************************************************************)
\* The coordinates in the params of a request, under the names the class
\* sends them.
SentCoordinates(cls, params) ==
    IF cls = "NearestStationsExtractor" THEN <<params.lat, params.lon>>
    ELSE <<params.latitude, params.longitude>>

\* C20: the request an instance's extract() sends carries the longitude and
\* latitude, and for the historical extractor the start_date and end_date,
\* passed to the constructor of that instance, whatever other instances of
\* its class were constructed in between.
C20_NoParameterBleed ==
    last.op = "extract" =>
      LET a == run[last.instance]
      IN /\ SentCoordinates(a.cls, last.params) = <<a.latitude, a.longitude>>
         /\ a.cls = "HistoricalExtractor" =>
               /\ last.params.start_date = a.start_date
               /\ last.params.end_date = a.end_date

\* What holds of the code: the request carries what the last constructor
\* call of the class set, and so the instance's own values when no other
\* instance of the class was constructed after it.
C20_LastConstructedWins ==
    last.op = "extract" =>
      LET a == run[last.instance]
      IN (\A j \in DOMAIN run : j > last.instance => run[j].cls # a.cls)
           => a.cls = "HistoricalExtractor"
              \/ SentCoordinates(a.cls, last.params) = <<a.latitude, a.longitude>>

(***************************************************************************)
(* Properties of the aggregations over retrieval days.                     *)
(***************************************************************************)
\* The observations of a group: its rows without the day of retrieval, each
\* <<city, time>> taken once.
Observations(g) ==
    SetToBag({[c \in DOMAIN r \ {"date_retrieved"} |-> r[c]] : r \in DOMAIN g})

\* The rows of bronze/historical a row of the weather summary, or of the
\* hourly analysis, is aggregated from.
SummaryGroup(row) ==
    Restrict(store[BronzePath("historical")].rows,
             {r \in DOMAIN store[BronzePath("historical")].rows :
                /\ r.city = row.city
                /\ DateOf(r.time) = row.date
                /\ Geohash(r.station_coordinates[1], r.station_coordinates[2])
                     = row.geohash})

HourlyGroup(row) ==
    Restrict(store[BronzePath("historical")].rows,
             {r \in DOMAIN store[BronzePath("historical")].rows :
                r.city = row.city /\ HourOf(r.time) = row.hour})

\* A frame of the given silver dataset has just been transformed.
JustTransformed(location) ==
    /\ run.layer = "silver"
    /\ pc.phase = "load"
    /\ SilverSteps[pc.d].location = location

OnceInSummary ==
    JustTransformed("weather_summary") =>
      \A i \in DOMAIN pc.data.rows :
         pc.data.rows[i].total_precipitation
           = Sum(Observations(SummaryGroup(pc.data.rows[i])), "precipitation")

OnceInHourly ==
    JustTransformed("hourly_historical_analysis") =>
      \A i \in DOMAIN pc.data.rows :
         /\ pc.data.rows[i].temp_avg
              = Mean(Observations(HourlyGroup(pc.data.rows[i])), "temperature_2m")
         /\ pc.data.rows[i].precipitation_avg
              = Mean(Observations(HourlyGroup(pc.data.rows[i])), "precipitation")
         /\ pc.data.rows[i].windspeed_avg
              = Mean(Observations(HourlyGroup(pc.data.rows[i])), "windspeed_10m")

\* C21: every <<city, time>> observation counts once in its group, however
\* many retrieval days hold it: the weather summary's total_precipitation
\* is the sum over the observations of the day, and the hourly analysis's
\* averages are the means over the observations of the hour.
C21_AggregatedOnce == OnceInSummary /\ OnceInHourly

\* What holds of the code: the totals and averages are those of the
\* observations when bronze/historical holds no hour under two retrieval
\* days.
RetrievedOnce ==
    \A r1, r2 \in DOMAIN store[BronzePath("historical")].rows :
       r1.city = r2.city /\ r1.time = r2.time => r1 = r2

C21_OnceWhenRetrievedOnce == RetrievedOnce => C21_AggregatedOnce
====
